---- MODULE Spec2Model ----
(***************************************************************************)
(* Model of async-service.js: the Service returned by exports.Service()    *)
(* (pending array, pipes table, readOnly gate), the module-wide            *)
(* unloadChecks registry, and the transport (jQuery.ajax) seen as a log of *)
(* issued requests plus the set of requests whose callback has not fired.  *)
(*                                                                         *)
(* Every handler of the source runs to completion (single-threaded         *)
(* JavaScript), so each is one action.  Promise callbacks registered with  *)
(* when()/fail() run inside fulfill()/smash().                             *)
(*                                                                         *)
(* Line 199 of the source reads pending.register(call); the model takes it *)
(* as the call of the local function register(call) of lines 44-85.        *)
(***************************************************************************)
EXTENDS Integers, Sequences, FiniteSets, TLC

\* ---------------------------------------------------------------- bounds
\* Number of Call() invocations in a run.
MaxCalls == 3

\* ---------------------------------------------------------------- inputs
\* args.method as given by the caller; "" stands for an omitted argument.
MethodArgs == {"", "POST"}
\* args.url
Urls == {"/x"}
\* args.pipeName as given by the caller; "" stands for an omitted argument.
PipeArgs == {"", "p"}
\* method values abandon(method, url) is called with
Methods == {"POST"}
\* names external callers give to unloadCheck(name, check)
ExtNames == {-1}

\* The args objects callers pass to Service.Call().  Callers issue reads as
\* GET (method omitted, readOnly given) and writes as POST (readOnly omitted);
\* prioritize is only given together with a pipeName.
CallArgs ==
    {a \in [method : MethodArgs, url : Urls, readOnly : BOOLEAN,
            pipeName : PipeArgs, prioritize : BOOLEAN] :
        /\ a.readOnly = (a.method = "")
        /\ a.prioritize => a.pipeName # ""}

\* An empty slot of the sparse array "pending" (an index i with !(i in pending)).
Hole == 0
\* call.unloadId before register() has set it.
Undefined == 0

VARIABLES
    calls,          \* the Call objects created so far, in creation order
    promise,        \* promise[c]: "pending", "fulfilled" or "rejected"
    abandoned,      \* the calls whose closure variable abandoned is true
    unloadId,       \* unloadId[c]: call.unloadId
    pending,        \* the sparse array pending: call ids and Holes
    pipes,          \* the object pipes: pipe name -> queue of call ids
    readOnly,       \* the Service's readOnly property
    unloadChecks,   \* the keys of the module-wide hash unloadChecks
    sent,           \* the requests handed to jQuery.ajax, in order
    inflight,       \* indices into sent whose callback has not fired yet
    deregs,         \* deregs[c]: how many times deregister(call) ran for c
    raised          \* the exception the last operation ended with, or "none"

vars == <<calls, promise, abandoned, unloadId, pending, pipes, readOnly,
          unloadChecks, sent, inflight, deregs, raised>>

CallIds == 1..Len(calls)

\* ------------------------------------------------------------ unloadCheck
\* Mutant of unloadCheckRemove: the entry is not deleted.
unloadCheckRemoveNothing(checks, name) == checks

\* unloadCheck(name) with one argument: delete unloadChecks[name].
\* A falsy name is replaced by a freshly generated UUID, which is the key of
\* no entry, so the delete removes nothing.
unloadCheckRemove(checks, name) ==
    IF name = Undefined THEN checks ELSE checks \ {name}

\* unloadCheck(name, check) with two arguments: unloadChecks[name] = check.
unloadCheckSet(checks, name) == checks \cup {name}

\* The UUID unloadCheck generates for a call's check.  Every Call makes
\* exactly one entry request with a falsy name, so the UUID generated for
\* call c is identified with c.
Uuid(c) == c

\* ---------------------------------------------------------------- state
\* The mutable state the Service's inner functions work on.
State == [pending |-> pending, pipes |-> pipes, unloadChecks |-> unloadChecks,
          unloadId |-> unloadId, abandoned |-> abandoned,
          sent |-> sent, inflight |-> inflight, deregs |-> deregs,
          raised |-> "none"]

\* Mutant of makeRequest: no request is issued.
makeRequestDropped(st, c) == st

\* call.makeRequest(): hand the request to jQuery.ajax.
makeRequest(st, c) ==
    [st EXCEPT !.sent = Append(@, c),
               !.inflight = @ \cup {Len(st.sent) + 1}]

\* The first index i in 1..Len+1 that is not "in" pending.
FirstFreeSlot(pend) ==
    IF \E i \in 1..Len(pend) : pend[i] = Hole
    THEN CHOOSE i \in 1..Len(pend) :
            pend[i] = Hole /\ \A j \in 1..(i-1) : pend[j] # Hole
    ELSE Len(pend) + 1

\* pending[i] = call
PutSlot(pend, i, c) ==
    IF i = Len(pend) + 1 THEN Append(pend, c) ELSE [pend EXCEPT ![i] = c]

\* Mutant of PipeInsert: the unshift without the swap into second place.
PipeInsertNoSwap(pipe, c, prioritize) ==
    IF prioritize /\ Len(pipe) > 0
    THEN <<c>> \o pipe
    ELSE Append(pipe, c)

\* The pipe after a call joined it (lines 71-78).
PipeInsert(pipe, c, prioritize) ==
    IF prioritize /\ Len(pipe) > 0
    THEN <<pipe[1], c>> \o Tail(pipe)
    ELSE Append(pipe, c)

\* register(call): the state afterwards.
register(st, c, call) ==
    LET slot == FirstFreeSlot(st.pending)
        st1  == [st EXCEPT !.pending = PutSlot(@, slot, c),
                           !.unloadChecks = unloadCheckSet(@, Uuid(c)),
                           !.unloadId = [@ EXCEPT ![c] = Uuid(c)]]
        name == call.pipeName
        old  == IF name \in DOMAIN st1.pipes THEN st1.pipes[name] ELSE <<>>
        new  == PipeInsert(old, c, call.prioritize)
    IN  IF name # ""
        THEN [st1 EXCEPT !.pipes = [n \in DOMAIN @ \cup {name} |->
                                        IF n = name THEN new ELSE @[n]]]
        ELSE st1

\* Mutant of registerResult: 'proceed' whatever the pipe holds.
registerResultAlwaysProceed(st, c, call) == "proceed"

\* Mutant of registerResult: 'delay' as soon as the pipe is non-empty.
registerResultDelayAtOne(st, c, call) ==
    LET name == call.pipeName
        old  == IF name \in DOMAIN st.pipes THEN st.pipes[name] ELSE <<>>
    IN  IF name # "" /\ Len(PipeInsert(old, c, call.prioritize)) >= 1
        THEN "delay" ELSE "proceed"

\* register(call): the value returned, 'proceed' or 'delay'.
registerResult(st, c, call) ==
    LET name == call.pipeName
        old  == IF name \in DOMAIN st.pipes THEN st.pipes[name] ELSE <<>>
    IN  IF name # "" /\ Len(PipeInsert(old, c, call.prioritize)) > 1
        THEN "delay" ELSE "proceed"

\* Mutant of DeleteSlot: the slot is not vacated.
DeleteSlotKeeps(pend, c) == pend

\* jQuery.inArray(call, pending) followed by delete pending[i].
DeleteSlot(pend, c) ==
    IF \E i \in 1..Len(pend) : pend[i] = c
    THEN LET i == CHOOSE k \in 1..Len(pend) :
                      pend[k] = c /\ \A j \in 1..(k-1) : pend[j] # c
         IN  [pend EXCEPT ![i] = Hole]
    ELSE pend

\* Mutant of Shift: the head stays in the queue.
ShiftNothing(pipe) == pipe

\* pipe.shift(): on an empty array it removes nothing.
Shift(pipe) == IF Len(pipe) = 0 THEN pipe ELSE Tail(pipe)

\* Mutant of deregister: the next call in the pipe is not run.
deregisterNoAdvance(st, c, call) ==
    LET st1  == [st EXCEPT !.unloadChecks = unloadCheckRemove(@, st.unloadId[c]),
                           !.deregs = [@ EXCEPT ![c] = @ + 1]]
        name == call.pipeName
    IN  IF name # "" /\ name \notin DOMAIN st1.pipes
        THEN [st1 EXCEPT !.raised = "Unknown pipe"]
        ELSE LET st2 == IF name = "" THEN st1
                        ELSE [st1 EXCEPT !.pipes[name] = Shift(@)]
             IN  [st2 EXCEPT !.pending = DeleteSlot(@, c)]

\* deregister(call)
deregister(st, c, call) ==
    LET st1  == [st EXCEPT !.unloadChecks = unloadCheckRemove(@, st.unloadId[c]),
                           !.deregs = [@ EXCEPT ![c] = @ + 1]]
        name == call.pipeName
    IN  IF name # "" /\ name \notin DOMAIN st1.pipes
        THEN [st1 EXCEPT !.raised = "Unknown pipe"]
        ELSE LET st2 == IF name = "" THEN st1
                        ELSE [st1 EXCEPT !.pipes[name] = Shift(@)]
                 st3 == IF name # "" /\ Len(st2.pipes[name]) > 0
                        THEN makeRequest(st2, st2.pipes[name][1])
                        ELSE st2
             IN  [st3 EXCEPT !.pending = DeleteSlot(@, c)]

\* Mutant of callAbandon: the flag is set but the call is not deregistered.
callAbandonFlagOnly(st, c, call) == [st EXCEPT !.abandoned = @ \cup {c}]

\* call.abandon()
callAbandon(st, c, call) ==
    deregister([st EXCEPT !.abandoned = @ \cup {c}], c, call)

\* The loop of abandon(method, url) from index i on; an exception ends it.
RECURSIVE abandonFrom(_, _, _, _)
abandonFrom(st, i, method, url) ==
    IF i > Len(st.pending) \/ st.raised # "none" THEN st
    ELSE LET c == st.pending[i]
         IN  IF c # Hole /\ calls[c].method = method /\ calls[c].url = url
             THEN abandonFrom(callAbandon(st, c, calls[c]), i + 1, method, url)
             ELSE abandonFrom(st, i + 1, method, url)

\* isClean()
isClean ==
    ~ \E i \in 1..Len(pending) : pending[i] # Hole /\ ~calls[pending[i]].readOnly

\* The exception pipeLength throws, as a value no length can take.
UnknownPipe == -1

\* pipeLength(pipeName): the length, or the exception thrown.
pipeLength(pipeName) ==
    IF pipeName \notin DOMAIN pipes THEN UnknownPipe ELSE Len(pipes[pipeName])

\* ---------------------------------------------------------------- actions
Install(st) ==
    /\ pending' = st.pending
    /\ pipes' = st.pipes
    /\ unloadChecks' = st.unloadChecks
    /\ unloadId' = st.unloadId
    /\ abandoned' = st.abandoned
    /\ sent' = st.sent
    /\ inflight' = st.inflight
    /\ deregs' = st.deregs
    /\ raised' = st.raised

\* The call object built at lines 152-165: args.method || 'GET', the
\* other properties as given.
NewCall(args) ==
    [method |-> IF args.method = "" THEN "GET" ELSE args.method,
     url |-> args.url, readOnly |-> args.readOnly,
     pipeName |-> args.pipeName, prioritize |-> args.prioritize]

\* Mutant of GateRejects: the gate only stops piped calls.
GateRejectsPipedOnly(call) == ~call.readOnly /\ readOnly /\ call.pipeName # ""

\* The read-only gate: !call.readOnly && this.readOnly
GateRejects(call) == ~call.readOnly /\ readOnly

\* Service.Call(args)
Call(args) ==
    /\ Len(calls) < MaxCalls
    /\ LET c    == Len(calls) + 1
           call == NewCall(args)
           st0  == [State EXCEPT !.unloadId = Append(@, Undefined),
                                 !.deregs = Append(@, 0)]
       IN  /\ calls' = Append(calls, call)
           /\ IF GateRejects(call)
              THEN \* promise.smash(...) runs the fail callback: deregister(call)
                   /\ promise' = Append(promise, "rejected")
                   /\ Install(deregister(st0, c, call))
              ELSE /\ promise' = Append(promise, "pending")
                   /\ IF registerResult(st0, c, call) = "proceed"
                      THEN Install(makeRequest(register(st0, c, call), c))
                      ELSE Install(register(st0, c, call))
    /\ UNCHANGED readOnly

\* Mutant of callback: the abandoned flag is not looked at.
callbackIgnoringAbandoned(i, outcome) ==
    LET c  == sent[i]
        st == [State EXCEPT !.inflight = @ \ {i}]
    IN  IF promise[c] # "pending"
        THEN Install(st) /\ UNCHANGED promise
        ELSE /\ promise' = [promise EXCEPT ![c] = outcome]
             /\ Install(deregister(st, c, calls[c]))

\* What a transport callback does for request i, settling with outcome.
callback(i, outcome) ==
    LET c  == sent[i]
        st == [State EXCEPT !.inflight = @ \ {i}]
    IN  IF c \in abandoned \/ promise[c] # "pending"
        THEN Install(st) /\ UNCHANGED promise
        ELSE /\ promise' = [promise EXCEPT ![c] = outcome]
             /\ Install(deregister(st, c, calls[c]))

\* The success callback of request i (lines 186-193).
Success(i) ==
    /\ i \in inflight
    /\ callback(i, "fulfilled")
    /\ UNCHANGED <<calls, readOnly>>

\* The error callback of request i (lines 179-185).
Error(i) ==
    /\ i \in inflight
    /\ callback(i, "rejected")
    /\ UNCHANGED <<calls, readOnly>>

\* Service.abandon(method, url)
abandon(method, url) ==
    /\ Install(abandonFrom(State, 1, method, url))
    /\ UNCHANGED <<calls, promise, readOnly>>

\* The caller assigns the Service's readOnly property.
SetReadOnly(b) ==
    /\ readOnly # b
    /\ readOnly' = b
    /\ raised' = "none"
    /\ UNCHANGED <<calls, promise, abandoned, unloadId, pending, pipes,
                   unloadChecks, sent, inflight, deregs>>

\* An external caller adds a check: unloadCheck(name, check).
ExtSetCheck(name) ==
    /\ name \notin unloadChecks
    /\ unloadChecks' = unloadCheckSet(unloadChecks, name)
    /\ raised' = "none"
    /\ UNCHANGED <<calls, promise, abandoned, unloadId, pending, pipes,
                   readOnly, sent, inflight, deregs>>

\* An external caller removes its check: unloadCheck(name).
ExtRemoveCheck(name) ==
    /\ name \in unloadChecks
    /\ unloadChecks' = unloadCheckRemove(unloadChecks, name)
    /\ raised' = "none"
    /\ UNCHANGED <<calls, promise, abandoned, unloadId, pending, pipes,
                   readOnly, sent, inflight, deregs>>

Init ==
    /\ calls = <<>>
    /\ promise = <<>>
    /\ abandoned = {}
    /\ unloadId = <<>>
    /\ pending = <<>>
    /\ pipes = <<>>
    /\ readOnly = FALSE
    /\ unloadChecks = {}
    /\ sent = <<>>
    /\ inflight = {}
    /\ deregs = <<>>
    /\ raised = "none"

Next ==
    \/ \E args \in CallArgs : Call(args)
    \/ \E i \in inflight : Success(i)
    \/ \E i \in inflight : Error(i)
    \/ \E method \in Methods, url \in Urls : abandon(method, url)
    \/ \E b \in BOOLEAN : SetReadOnly(b)

Spec == Init /\ [][Next]_vars

\* The transport fires the callback of some outstanding request.
TransportFires == \E i \in inflight : Success(i) \/ Error(i)

\* The Service with a transport that answers every request: a request whose
\* callback has not fired stays outstanding until it does, so weak fairness
\* of the callbacks is what jQuery.ajax's completion guarantees.
SpecFair == Init /\ [][Next]_vars /\ WF_vars(TransportFires)

\* The Service together with external users of unloadCheck().  Priority
\* only reorders a pipe's queue, so the callers here do not use it.
NextUnload ==
    \/ \E args \in CallArgs : ~args.prioritize /\ Call(args)
    \/ \E i \in inflight : Success(i)
    \/ \E i \in inflight : Error(i)
    \/ \E method \in Methods, url \in Urls : abandon(method, url)
    \/ \E b \in BOOLEAN : SetReadOnly(b)
    \/ \E name \in ExtNames : ExtSetCheck(name)
    \/ \E name \in ExtNames : ExtRemoveCheck(name)

SpecUnload == Init /\ [][NextUnload]_vars

TypeOK ==
    /\ Len(calls) <= MaxCalls
    /\ Len(promise) = Len(calls)
    /\ Len(unloadId) = Len(calls)
    /\ abandoned \subseteq CallIds
    /\ \A i \in 1..Len(pending) : pending[i] \in CallIds \cup {Hole}
    /\ DOMAIN pipes \subseteq PipeArgs \ {""}
    /\ readOnly \in BOOLEAN
    /\ inflight \subseteq 1..Len(sent)
    /\ Len(deregs) = Len(calls)

\* ------------------------------------------------- vocabulary of the claims
PipeNames == PipeArgs \ {""}

\* c occupies a slot of the Pending Set.
InPending(c) == \E i \in 1..Len(pending) : pending[i] = c

\* c has been handed to the transport.
Dispatched(c) == \E i \in 1..Len(sent) : sent[i] = c

\* c has a request whose callback has not fired.
InFlight(c) == \E i \in inflight : sent[i] = c

\* c passed the gate and went through register().
Registered(c) == unloadId[c] # Undefined

\* c's promise is fulfilled or rejected.
Settled(c) == promise[c] # "pending"

\* c is a member of the queue of some pipe.
InSomePipe(c) ==
    \E n \in DOMAIN pipes : \E k \in 1..Len(pipes[n]) : pipes[n][k] = c

\* The position of c's first request in the transport log.
SentIndex(c) ==
    CHOOSE i \in 1..Len(sent) : sent[i] = c /\ \A j \in 1..(i-1) : sent[j] # c

\* The position of c in a queue.
Pos(q, c) == CHOOSE k \in 1..Len(q) : q[k] = c

\* This step is Call() admitting a new call (it went through register()).
AdmissionStep ==
    /\ Len(calls') = Len(calls) + 1
    /\ unloadId'[Len(calls')] # Undefined

\* This step is Call() for a write while the gate is closed.
GateRejectionStep ==
    /\ Len(calls') = Len(calls) + 1
    /\ ~calls'[Len(calls')].readOnly
    /\ readOnly

\* This step is an abandon(method, url) sweep that matched some call.
SweepStep == abandoned' # abandoned

\* ------------------------------------------------------------------ C1
\* C1: per-pipe mutual exclusion.  In every reachable state, for each pipe
\* name, at most one Call with that pipeName that is still in the Pending
\* Set is in flight (dispatched, callback not yet fired).
C1_MutualExclusion ==
    \A n \in PipeNames :
        Cardinality({c \in CallIds :
            calls[c].pipeName = n /\ InPending(c) /\ InFlight(c)}) <= 1

\* ------------------------------------------------------------------ C2
\* a precedes b in the order in which their pipe hands calls to the
\* transport: by the transport log when dispatched, else by queue position.
Ahead(a, b) ==
    \/ Dispatched(a) /\ Dispatched(b) /\ SentIndex(a) < SentIndex(b)
    \/ Dispatched(a) /\ ~Dispatched(b)
    \/ /\ ~Dispatched(a) /\ ~Dispatched(b)
       /\ \E n \in DOMAIN pipes :
            /\ \E k \in 1..Len(pipes[n]) : pipes[n][k] = a
            /\ \E k \in 1..Len(pipes[n]) : pipes[n][k] = b
            /\ Pos(pipes[n], a) < Pos(pipes[n], b)

\* C2: priority promotion.  A Call admitted with prioritize into a non-empty
\* pipe is placed at queue position 1, directly behind the head: it is not
\* dispatched by its admission, the head stays ahead of it and it is ahead
\* of every Call that was waiting.  No admission changes the head of a
\* pipe, and the dispatch order of two Calls of a pipe, once fixed, never
\* changes, so the promoted Call is dispatched before the Calls it jumped
\* (C1, C2, C3-with-priority are dispatched in the order C1, C3, C2).
C2_PriorityPromotion ==
    [][ /\ AdmissionStep =>
            \A c \in {Len(calls) + 1} :
                LET n == calls'[c].pipeName
                IN  /\ \A m \in DOMAIN pipes :
                            Len(pipes[m]) > 0 => pipes'[m][1] = pipes[m][1]
                    /\ ( /\ calls'[c].prioritize
                         /\ n \in DOMAIN pipes
                         /\ Len(pipes[n]) > 0 )
                       => /\ pipes'[n] = <<pipes[n][1], c>> \o Tail(pipes[n])
                          /\ ~Dispatched(c)'
                          /\ \A h \in {pipes[n][1]} : Ahead(h, c)'
                          /\ \A w \in {pipes[n][k] : k \in 2..Len(pipes[n])} :
                                Ahead(c, w)'
        /\ \A a \in CallIds, b \in CallIds :
            ( /\ a # b
              /\ calls[a].pipeName # ""
              /\ calls[a].pipeName = calls[b].pipeName
              /\ Ahead(a, b) )
            => Ahead(a, b)'
      ]_vars

\* Calls 1, 2, 3 went to one pipe, 3 with priority and 2 without, and the
\* transport received them in the order 1, 3, 2.
C2_Witness ==
    /\ Len(calls) = 3
    /\ calls[1].pipeName # ""
    /\ calls[2].pipeName = calls[1].pipeName
    /\ calls[3].pipeName = calls[1].pipeName
    /\ ~calls[2].prioritize /\ calls[3].prioritize
    /\ sent = <<1, 3, 2>>

\* ------------------------------------------------------------------ C3
\* C3: per-pipe serial order.  For Calls A and B admitted to the same pipe,
\* A before B and B not prioritized: once B is dispatched, A was dispatched
\* before it and A has settled or been abandoned.
C3_SerialOrder ==
    \A a \in CallIds, b \in CallIds :
        ( /\ a < b
          /\ Registered(a) /\ Registered(b)
          /\ calls[a].pipeName # "" /\ calls[a].pipeName = calls[b].pipeName
          /\ ~calls[b].prioritize
          /\ Dispatched(b) )
        => /\ Dispatched(a)
           /\ SentIndex(a) < SentIndex(b)
           /\ (Settled(a) \/ a \in abandoned)

\* ------------------------------------------------------------------ C4
\* After the step, the head of every non-empty pipe has been dispatched.
HeadDispatched ==
    \A n \in DOMAIN pipes : Len(pipes[n]) > 0 => Dispatched(pipes[n][1])

\* C4: no missed advancement.  When the promise of the head of a pipe
\* holding two or more Calls settles, the same step removes it from the
\* queue and hands the new head to the transport; and no step leaves a
\* non-empty pipe whose head has not been dispatched.
C4_NoMissedAdvancement ==
    [][ /\ \A c \in CallIds :
            LET n == calls[c].pipeName
            IN  ( /\ ~Settled(c) /\ Settled(c)'
                  /\ n \in DOMAIN pipes
                  /\ Len(pipes[n]) >= 2
                  /\ pipes[n][1] = c )
                => /\ pipes'[n] = Tail(pipes[n])
                   /\ sent' = Append(sent, pipes[n][2])
                   /\ Len(sent') \in inflight'
        /\ HeadDispatched'
      ]_vars

\* Call 2 joined call 1's pipe while call 1 was pending (it took the second
\* slot), call 1 has settled since, and call 2 is the dispatched head.
C4_Witness ==
    /\ Len(calls) >= 2
    /\ calls[1].pipeName # ""
    /\ calls[2].pipeName = calls[1].pipeName
    /\ Settled(1)
    /\ Len(pending) >= 2 /\ pending[1] = Hole /\ pending[2] = 2
    /\ pipes[calls[1].pipeName][1] = 2
    /\ sent = <<1, 2>>
    /\ 2 \in inflight

\* ------------------------------------------------------------------ C5
\* C5: after abandon(method, url) returns, no Call with that method and url
\* that was pending when the sweep started is left in the Pending Set or in
\* the queue of any pipe.
C5_SweepRemoves ==
    [][SweepStep =>
        \A c \in CallIds :
            ( /\ InPending(c)
              /\ \E d \in abandoned' \ abandoned :
                    /\ calls[d].method = calls[c].method
                    /\ calls[d].url = calls[c].url )
            => ~InPending(c)' /\ ~InSomePipe(c)']_vars

\* ------------------------------------------------------------------ C6
\* C6: an abandoned Call's promise is never settled, and a transport
\* callback that fires for an abandoned Call leaves the promises, the
\* Pending Set, every pipe and the unload-check registry unchanged.
C6_AbandonedNeverSettles ==
    [][ /\ \A c \in abandoned' : promise'[c] = "pending"
        /\ (\E i \in inflight \ inflight' : sent[i] \in abandoned)
            => UNCHANGED <<promise, pending, pipes, unloadChecks, sent>>
      ]_vars

\* An abandoned call was dispatched, its callback has fired, and its
\* promise is still pending.
C6_Witness ==
    \E c \in abandoned :
        /\ Dispatched(c)
        /\ ~InFlight(c)
        /\ promise[c] = "pending"

\* ------------------------------------------------------------------ C7
\* C7: gate rejection.  Call() for a write while the gate is closed rejects
\* the promise within the operation, does not put the call in the Pending
\* Set, does not dispatch it, and leaves the Pending Set (hence isClean())
\* as it was; a call that did not pass the gate never enters the Pending
\* Set and is never dispatched later either.
C7_GateRejection ==
    [][ /\ GateRejectionStep =>
            \A c \in {Len(calls) + 1} :
                /\ promise'[c] = "rejected"
                /\ pending' = pending
                /\ isClean' = isClean
                /\ ~Registered(c)'
                /\ ~InPending(c)'
                /\ ~Dispatched(c)'
        /\ \A c \in CallIds :
            ~Registered(c) =>
                ~Registered(c)' /\ ~InPending(c)' /\ ~Dispatched(c)'
      ]_vars

\* A write was rejected at the gate while another call was pending.
C7_Witness ==
    \E c \in CallIds, d \in CallIds :
        /\ ~Registered(c) /\ ~calls[c].readOnly /\ promise[c] = "rejected"
        /\ d < c /\ InPending(d)

\* ------------------------------------------------------------------ C8
\* C8: a gate-rejected Call leaves every pipe's queue as it was and causes
\* no request to the transport.
C8_GateRejectionFrame ==
    [][GateRejectionStep => pipes' = pipes /\ sent' = sent]_vars

\* ------------------------------------------------------------------ C9
\* C9: isClean() returns false if and only if some Call with readOnly false
\* was admitted and has neither settled nor been abandoned.
C9_IsClean ==
    (~isClean) <=>
        \E c \in CallIds :
            /\ ~calls[c].readOnly
            /\ Registered(c)
            /\ ~Settled(c)
            /\ c \notin abandoned

\* The Pending Set holds only vacated slots after a write left it, and
\* isClean() returns true.
C9_Witness ==
    /\ Len(pending) > 0
    /\ \A i \in 1..Len(pending) : pending[i] = Hole
    /\ \E c \in CallIds : ~calls[c].readOnly /\ Registered(c)
    /\ isClean

\* ------------------------------------------------------------------ C10
\* The calls that were registered with pipeName n.
RegisteredTo(n) == {c \in CallIds : Registered(c) /\ calls[c].pipeName = n}

\* C10: pipeLength(name) raises the unknown-pipe error if and only if no
\* Call with that pipeName was ever registered; it returns 1 while the only
\* Call registered to the pipe has not completed, and 0 once every Call of
\* the pipe has settled or been abandoned.
C10_PipeLength ==
    \A n \in PipeNames :
        /\ (pipeLength(n) = UnknownPipe) <=> (RegisteredTo(n) = {})
        /\ ( /\ Cardinality(RegisteredTo(n)) = 1
             /\ \A c \in RegisteredTo(n) : ~Settled(c) /\ c \notin abandoned )
           => pipeLength(n) = 1
        /\ ( /\ RegisteredTo(n) # {}
             /\ \A c \in RegisteredTo(n) : Settled(c) \/ c \in abandoned )
           => pipeLength(n) = 0

\* ------------------------------------------------------------------ C11
\* C11: deregistration runs at most once per Call, exactly once for every
\* admitted Call that has settled or been abandoned, and never for a Call
\* that was never registered.
C11_DeregisterOnce ==
    \A c \in CallIds :
        /\ deregs[c] <= 1
        /\ (Registered(c) /\ (Settled(c) \/ c \in abandoned)) => deregs[c] = 1
        /\ ~Registered(c) => deregs[c] = 0

\* ------------------------------------------------------------------ C12
\* This step is Call() for a call the gate lets through.
GatePassStep ==
    /\ Len(calls') = Len(calls) + 1
    /\ calls'[Len(calls')].readOnly \/ ~readOnly

PendingOf(n) == {c \in CallIds : InPending(c) /\ calls[c].pipeName = n}

\* C13: as long as no Call has been rejected at the gate, pipeLength(name)
\* equals the number of Calls in the Pending Set whose pipeName is name.
C13_PipeLengthCountsPending ==
    (\A c \in CallIds : Registered(c)) =>
        \A n \in DOMAIN pipes : pipeLength(n) = Cardinality(PendingOf(n))

\* No call was rejected at the gate, a waiting call of the pipe has been
\* abandoned by a sweep, and the pipe still holds two calls.
C13_Witness ==
    /\ \A c \in CallIds : Registered(c)
    /\ \E n \in DOMAIN pipes :
        /\ pipeLength(n) = 2
        /\ \E c \in abandoned : calls[c].pipeName = n /\ InSomePipe(c)

\* ------------------------------------------------------------------ C14
\* C14: pipe queue invariant.  In every pipe, a Call at a non-head position
\* has never been dispatched and the Call at the head has been dispatched.
C14_QueueInvariant ==
    \A n \in DOMAIN pipes :
        \A k \in 1..Len(pipes[n]) :
            Dispatched(pipes[n][k]) <=> (k = 1)

\* A pipe holds two calls, the second of them admitted with priority, after
\* a gate rejection or a sweep has happened.
C14_Witness ==
    \E n \in DOMAIN pipes :
        /\ Len(pipes[n]) = 2
        /\ calls[pipes[n][2]].prioritize
        /\ \E c \in CallIds : ~Registered(c) \/ c \in abandoned

\* ------------------------------------------------------------------ C15
\* C15: deregistering a piped Call removes exactly that Call from its
\* pipe's queue.  A step takes a Call out of a queue only by deregistering
\* that very Call, which is at the head when its deregistration runs; a
\* deregistration that does not find its Call at the head raises an error.
C15_DeregisterRemovesSelf ==
    [][ \/ raised' # "none"
        \/ \A c \in CallIds :
            (InSomePipe(c) /\ ~InSomePipe(c)') => deregs'[c] = deregs[c] + 1
      ]_vars

\* ------------------------------------------------------------------ C16
\* C16: abandoning the in-flight head of a pipe that holds further Calls
\* hands the next queued Call to the transport within the abandon step,
\* while the abandoned head's callback is still outstanding.
C16_AbandonedHeadUnblocks ==
    [][ \A n \in DOMAIN pipes :
            ( /\ Len(pipes[n]) >= 2
              /\ pipes[n][1] \in abandoned' \ abandoned
              /\ InFlight(pipes[n][1]) )
            => \A h \in {pipes[n][1]}, x \in {pipes[n][2]} :
                /\ ~Dispatched(x)
                /\ Dispatched(x)'
                /\ InFlight(x)'
                /\ InFlight(h)'
      ]_vars

\* Call 1 was abandoned as the in-flight head of its pipe; call 2, which
\* waited behind it, is the dispatched head while call 1's callback is
\* still outstanding.
C16_Witness ==
    /\ Len(calls) = 2
    /\ calls[1].pipeName # ""
    /\ calls[2].pipeName = calls[1].pipeName
    /\ abandoned = {1}
    /\ pending = <<Hole, 2>>
    /\ pipes[calls[1].pipeName] = <<2>>
    /\ sent = <<1, 2>>
    /\ inflight = {1, 2}

\* ------------------------------------------------------------------ C17
\* The unload-check entries the Service created: all but the external ones.
ServiceChecks == unloadChecks \ ExtNames

\* The calls in the Pending Set.
PendingCalls == {c \in CallIds : InPending(c)}

\* The Service's entries are the unloadIds of the pending calls, one each.
ChecksMatchPending ==
    /\ ServiceChecks = {unloadId[c] : c \in PendingCalls}
    /\ \A c \in PendingCalls, d \in PendingCalls :
            unloadId[c] = unloadId[d] => c = d
    /\ \A c \in PendingCalls : unloadId[c] # Undefined

\* C17: unload-check bookkeeping.  After every step the entries created by
\* the Service correspond one-to-one to the Calls in the Pending Set (an
\* entry appears with registration and goes with deregistration), and a
\* gate-rejected Call adds or removes no entry, external ones included.
C17_UnloadBookkeeping ==
    [][ /\ ChecksMatchPending'
        /\ GateRejectionStep => unloadChecks' = unloadChecks
      ]_vars

\* With an external entry registered, one call is pending, one has been
\* deregistered and one was rejected at the gate.
C17_Witness ==
    /\ ExtNames \subseteq unloadChecks
    /\ \E c \in CallIds : InPending(c)
    /\ \E c \in CallIds : Registered(c) /\ ~InPending(c)
    /\ \E c \in CallIds : ~Registered(c)

\* ------------------------------------------------------------------ C18
\* C18: a Call that is abandoned before it was ever dispatched is never
\* dispatched afterwards: no step, the abandoning sweep included, hands a
\* so far undispatched Call to the transport once its abandoned flag is set.
C18_AbandonedNeverDispatched ==
    [][ \A c \in CallIds :
            (c \in abandoned' /\ ~Dispatched(c)) => ~Dispatched(c)'
      ]_vars

\* ------------------------------------------------------------------ C19
\* Every pipe's queue is empty.
AllPipesEmpty == \A n \in DOMAIN pipes : Len(pipes[n]) = 0

\* C19: progress.  With finitely many admissions and a transport that
\* fires the callback of every request, every admitted Call is eventually
\* dispatched and settled unless it is abandoned, and eventually every pipe
\* is empty for good.
C19_Progress ==
    /\ \A c \in 1..MaxCalls :
            (c \in CallIds /\ Registered(c))
                ~> (c \in abandoned \/ (Dispatched(c) /\ Settled(c)))
    /\ <>[]AllPipesEmpty

\* Three calls went through one pipe, one of them with priority and one of
\* them abandoned by a sweep; the others have settled and the pipe is empty.
C19_Witness ==
    /\ Len(calls) = 3
    /\ \A c \in CallIds : Registered(c) /\ calls[c].pipeName # ""
    /\ \E c \in CallIds : calls[c].prioritize
    /\ Cardinality(abandoned) = 1
    /\ \A c \in CallIds \ abandoned : Dispatched(c) /\ Settled(c)
    /\ AllPipesEmpty
    /\ inflight = {}

\* ------------------------------------------------------------------ C20
\* C20: no Call is dispatched to the transport more than once: the
\* transport log never holds the same Call twice, and only registered
\* Calls appear in it.
C20_DispatchedOnce ==
    /\ \A i \in 1..Len(sent), j \in 1..Len(sent) : sent[i] = sent[j] => i = j
    /\ \A i \in 1..Len(sent) : Registered(sent[i])

\* Three calls were pending in one pipe at the same time; the first went
\* out on admission, the other two when a deregistration made them head,
\* and all three have settled.
C20_Witness ==
    /\ Len(calls) = 3
    /\ \A c \in CallIds : calls[c].pipeName # "" /\ Settled(c) /\ Registered(c)
    /\ pending = <<Hole, Hole, Hole>>
    /\ Len(sent) = 3
    /\ sent[1] = 1
====
